---- MODULE Spec2Model ----
(***************************************************************************)
(* AssetComposeTransaction of codechain-sdk-js: canonical encode object,   *)
(* RLP bytes, hash, hashWithoutScript (signing hash scoped by a signature   *)
(* tag) and the asset / asset scheme addresses.                             *)
(*                                                                          *)
(* Byte strings are sequences over 0..255.  JS strings that are only ever   *)
(* turned into bytes (networkId, metadata, an address's toString()) are the *)
(* sequence of their UTF-8 bytes.  Hex strings produced from digests are    *)
(* kept as (literal characters, rest of a digest's hex digits).             *)
(***************************************************************************)
EXTENDS Integers, Sequences, FiniteSets, TLC

VARIABLES
    heap,   \* the arrays of AssetTransferInput: array id -> contents
    tx,     \* the two AssetComposeTransaction objects; inputs is an array id
    order,  \* the key order of the params object each was constructed from
    call,   \* the last call: receiver, operation, arguments
    ret,    \* what the last call returned or threw
    burn    \* the call of P2PKHBurn.createUnlockScript in progress

vars == <<heap, tx, order, call, ret, burn>>

\* Largest number of inputs of a transaction in the model.
MaxInputs == 2

----------------------------------------------------------------------------
\* Generic helpers

Rep(n, b) == [i \in 1..n |-> b]

RECURSIVE Flatten(_)
Flatten(ss) == IF ss = <<>> THEN <<>> ELSE Head(ss) \o Flatten(Tail(ss))

\* minimal big-endian bytes of a positive integer
RECURSIVE intToBuffer(_)
intToBuffer(n) == IF n = 0 THEN <<>> ELSE intToBuffer(n \div 256) \o <<n % 256>>

RECURSIVE stripLeadingZeros(_)
stripLeadingZeros(b) ==
    IF b # <<>> /\ Head(b) = 0 THEN stripLeadingZeros(Tail(b)) ELSE b

----------------------------------------------------------------------------
\* Values handed to the RLP encoder: a number, a byte string, or a list.

Num(n)   == [k |-> "num",   n |-> n, b |-> <<>>, l |-> <<>>]
Bytes(b) == [k |-> "bytes", n |-> 0, b |-> b,    l |-> <<>>]
List(l)  == [k |-> "list",  n |-> 0, b |-> <<>>, l |-> l]

\* rlp: length header, short form below 56, long form with the length's bytes
encodeLength(len, offset) ==
    IF len < 56 THEN <<len + offset>>
    ELSE LET h == intToBuffer(len) IN <<Len(h) + offset + 55>> \o h

\* rlp: a number becomes its minimal big-endian bytes, 0 the empty string
toBuffer(item) == IF item.k = "num" THEN intToBuffer(item.n) ELSE item.b

RECURSIVE RLPencode(_)
RLPencode(item) ==
    IF item.k = "list"
    THEN LET body == Flatten([i \in 1..Len(item.l) |-> RLPencode(item.l[i])])
         IN  encodeLength(Len(body), 192) \o body
    ELSE LET buf == toBuffer(item)
         IN  IF Len(buf) = 1 /\ buf[1] < 128 THEN buf
             ELSE encodeLength(Len(buf), 128) \o buf

----------------------------------------------------------------------------
\* Hash engine (blake2b), taken as collision-free: a digest is determined by,
\* and determines, the algorithm, the key and the message.  A message is raw
\* bytes or the bytes a 64-digit hex string stands for.

RawMsg(b) == [raw |-> b, hex |-> <<>>]
HexMsg(h) == [raw |-> <<>>, hex |-> <<h>>]

\* Number of hex digits of a 256-bit and of a 128-bit digest
H256HexLen == 64
H128HexLen == 32

blake256(msg) ==
    [alg |-> "blake256", key |-> RawMsg(<<>>), msg |-> msg, digits |-> H256HexLen]
blake256WithKey(msg, key) ==
    [alg |-> "blake256", key |-> key, msg |-> msg, digits |-> H256HexLen]
blake128(msg) ==
    [alg |-> "blake128", key |-> RawMsg(<<>>), msg |-> msg, digits |-> H128HexLen]

\* The hex string of a digest: no literal characters, all digits of the digest
HexOf(d) == [lit |-> <<>>, src |-> <<d>>, from |-> 1]

StrLen(s) == Len(s.lit) + (IF s.src = <<>> THEN 0 ELSE s.src[1].digits - s.from + 1)

\* s.replace(new RegExp(`^.{n}`), prefix): the first n characters give way to
\* prefix; a string shorter than n does not match and is left alone.
replacePrefix(s, n, prefix) ==
    IF StrLen(s) < n THEN s
    ELSE IF Len(s.lit) >= n
         THEN [s EXCEPT !.lit = prefix \o SubSeq(s.lit, n + 1, Len(s.lit))]
         ELSE [s EXCEPT !.lit = prefix, !.from = s.from + (n - Len(s.lit))]

----------------------------------------------------------------------------
\* Value types

\* U64: eight big-endian bytes.  U64Of builds one from a small number.
U64Of(n) == Rep(8 - Len(intToBuffer(n)), 0) \o intToBuffer(n)
U64Max   == Rep(8, 255)

\* U64.toEncodeObject: the number, which rlp writes as minimal big-endian bytes
U64_toEncodeObject(u) == Bytes(stripLeadingZeros(u))

\* H160 / H256 toEncodeObject: the value's bytes
H_toEncodeObject(h) == Bytes(h)

\* A nullable field: null, or a value
NullOf(dflt) == [isNull |-> TRUE, v |-> dflt]
Some(x)      == [isNull |-> FALSE, v |-> x]

\* An optional field of AssetOutPointData: undefined, or a value
Undefined(dflt) == [present |-> FALSE, v |-> dflt]
Present(x)      == [present |-> TRUE, v |-> x]

----------------------------------------------------------------------------
\* AssetOutPoint, AssetTransferInput

\* AssetOutPoint.toEncodeObject leaving the index out
AssetOutPoint_toEncodeObject_noIndex(p) ==
    List(<< H_toEncodeObject(p.transactionHash),
            H_toEncodeObject(p.assetType),
            U64_toEncodeObject(p.amount) >>)

AssetOutPoint_toEncodeObject(p) ==
    List(<< H_toEncodeObject(p.transactionHash),
            Num(p.index),
            H_toEncodeObject(p.assetType),
            U64_toEncodeObject(p.amount) >>)

AssetTransferInput_toEncodeObject(input) ==
    List(<< AssetOutPoint_toEncodeObject(input.prevOut),
            Bytes(input.lockScript),
            Bytes(input.unlockScript) >>)

\* AssetTransferInput.withoutScript: a copy with both scripts empty
withoutScript(input) ==
    [prevOut |-> input.prevOut, lockScript |-> <<>>, unlockScript |-> <<>>]

\* new AssetMintOutput(data): a copy of the three fields
AssetMintOutput(data) ==
    [lockScriptHash |-> data.lockScriptHash,
     parameters     |-> data.parameters,
     amount         |-> data.amount]

----------------------------------------------------------------------------
\* AssetComposeTransaction: `this` is the record of the fields, its inputs
\* the contents of the inputs array.

\* toEncodeObject with a null approver or administrator written as an empty
\* string in place of an empty list
toEncodeObject_nullableScalar(this) ==
    List(<< Num(6),
            Bytes(this.networkId),
            Num(this.shardId),
            Bytes(this.metadata),
            IF ~this.approver.isNull
               THEN List(<<Bytes(this.approver.v)>>) ELSE Bytes(<<>>),
            IF ~this.administrator.isNull
               THEN List(<<Bytes(this.administrator.v)>>) ELSE Bytes(<<>>),
            List([k \in 1..Len(this.inputs) |-> AssetTransferInput_toEncodeObject(this.inputs[k])]),
            H_toEncodeObject(this.output.lockScriptHash),
            List([k \in 1..Len(this.output.parameters) |-> Bytes(this.output.parameters[k])]),
            IF ~this.output.amount.isNull
               THEN List(<<U64_toEncodeObject(this.output.amount.v)>>)
               ELSE List(<<>>) >>)

toEncodeObject(this) ==
    List(<< Num(6),
            Bytes(this.networkId),
            Num(this.shardId),
            Bytes(this.metadata),
            IF ~this.approver.isNull
               THEN List(<<Bytes(this.approver.v)>>) ELSE List(<<>>),
            IF ~this.administrator.isNull
               THEN List(<<Bytes(this.administrator.v)>>) ELSE List(<<>>),
            List([k \in 1..Len(this.inputs) |-> AssetTransferInput_toEncodeObject(this.inputs[k])]),
            H_toEncodeObject(this.output.lockScriptHash),
            List([k \in 1..Len(this.output.parameters) |-> Bytes(this.output.parameters[k])]),
            IF ~this.output.amount.isNull
               THEN List(<<U64_toEncodeObject(this.output.amount.v)>>)
               ELSE List(<<>>) >>)

rlpBytes(this) == RLPencode(toEncodeObject(this))

\* hash taken of the transaction without the scripts of its inputs
hash_withoutScripts(this) ==
    HexOf(blake256(RawMsg(rlpBytes(
        [this EXCEPT !.inputs = [k \in 1..Len(this.inputs) |-> withoutScript(this.inputs[k])]]))))

hash(this) == HexOf(blake256(RawMsg(rlpBytes(this))))

\* Outcome of a call: a returned value or a thrown error
NoError == [name |-> "", message |-> ""]
NoH256  == [lit |-> <<>>, src |-> <<>>, from |-> 1]
NoObject == [k |-> "list", n |-> 0, b |-> <<>>, l |-> <<>>]
Return(h) ==
    [status |-> "ok", error |-> NoError, value |-> h, enc |-> NoObject, bytes |-> <<>>,
     obj |-> <<>>]
ReturnObject(e) ==
    [status |-> "ok", error |-> NoError, value |-> NoH256, enc |-> e, bytes |-> <<>>,
     obj |-> <<>>]
ReturnBytes(b) ==
    [status |-> "ok", error |-> NoError, value |-> NoH256, enc |-> NoObject, bytes |-> b,
     obj |-> <<>>]
\* a returned object (an Asset, an AssetScheme, a JSON value, a transaction)
ReturnValue(v) ==
    [status |-> "ok", error |-> NoError, value |-> NoH256, enc |-> NoObject, bytes |-> <<>>,
     obj |-> <<v>>]
Throw(name, msg) ==
    [status |-> "throw", error |-> [name |-> name, message |-> msg],
     value |-> NoH256, enc |-> NoObject, bytes |-> <<>>, obj |-> <<>>]

\* Signature tags.  output is the string "all", another string, or an array.
OutAll        == [isArray |-> FALSE, str |-> "all", arr |-> <<>>]
OutArray(a)   == [isArray |-> TRUE,  str |-> "",    arr |-> a]
OutString(x)  == [isArray |-> FALSE, str |-> x,     arr |-> <<>>]
Tag(i, o)     == [input |-> i, output |-> o]
DefaultTag    == Tag("all", OutAll)

\* index: a number, or null (also what an omitted index defaults to)
NullIndex     == [isNumber |-> FALSE, n |-> 0]
NumIndex(n)   == [isNumber |-> TRUE,  n |-> n]

\* params of hashWithoutScript: undefined, or {tag, index} with either omitted
NoParams            == [hasTag |-> FALSE, tag |-> DefaultTag, index |-> NullIndex]
Params(tag, index)  == [hasTag |-> TRUE,  tag |-> tag,        index |-> index]

\* encodeSignatureTag: one byte, bit 0 set for input "all", bit 1 set for
\* output "all"
encodeSignatureTag(tag) ==
    << (IF tag.input = "all" THEN 1 ELSE 0)
       + (IF ~tag.output.isArray /\ tag.output.str = "all" THEN 2 ELSE 0) >>

ZeroH160 == Rep(20, 0)

\* selectInputs with the scripts left in the inputs under input "all"
selectInputs_keepScripts(this, tag, index) ==
    IF tag.input = "all"
    THEN [status |-> "ok", error |-> NoError, inputs |-> this.inputs]
    ELSE IF tag.input = "single" /\ index.isNumber
            /\ index.n \in 0..(Len(this.inputs) - 1)
    THEN [status |-> "ok", error |-> NoError,
          inputs |-> << withoutScript(this.inputs[index.n + 1]) >>]
    ELSE [status |-> "throw", inputs |-> <<>>,
          error |-> [name |-> "Error", message |-> "Unexpected value"]]

\* selectInputs with input "single" keeping the other inputs too
selectInputs_keepOthers(this, tag, index) ==
    IF tag.input = "all"
       \/ (tag.input = "single" /\ index.isNumber
             /\ index.n \in 0..(Len(this.inputs) - 1))
    THEN [status |-> "ok", error |-> NoError,
          inputs |-> [k \in 1..Len(this.inputs) |-> withoutScript(this.inputs[k])]]
    ELSE [status |-> "throw", inputs |-> <<>>,
          error |-> [name |-> "Error", message |-> "Unexpected value"]]

\* selectInputs with a missing index read as 0 (index || 0)
selectInputs_indexDefault(this, tag, index) ==
    LET i == IF index.isNumber THEN index.n ELSE 0 IN
    IF tag.input = "all"
    THEN [status |-> "ok", error |-> NoError,
          inputs |-> [k \in 1..Len(this.inputs) |-> withoutScript(this.inputs[k])]]
    ELSE IF tag.input = "single" /\ i \in 0..(Len(this.inputs) - 1)
    THEN [status |-> "ok", error |-> NoError,
          inputs |-> << withoutScript(this.inputs[i + 1]) >>]
    ELSE [status |-> "throw", inputs |-> <<>>,
          error |-> [name |-> "TypeError",
                     message |-> "Cannot read property 'withoutScript' of undefined"]]

\* hashWithoutScript, the inputs the hash covers: every input without its
\* scripts, or the one at index; index must be a number, and inputs[index] of
\* an index outside the array is undefined
selectInputs(this, tag, index) ==
    IF tag.input = "all"
    THEN [status |-> "ok", error |-> NoError,
          inputs |-> [k \in 1..Len(this.inputs) |-> withoutScript(this.inputs[k])]]
    ELSE IF tag.input = "single"
    THEN IF ~index.isNumber
         THEN [status |-> "throw", inputs |-> <<>>,
               error |-> [name |-> "Error",
                          message |-> "Unexpected value of the index"]]
         ELSE IF index.n \notin 0..(Len(this.inputs) - 1)
         THEN [status |-> "throw", inputs |-> <<>>,
               error |-> [name |-> "TypeError",
                          message |-> "Cannot read property 'withoutScript' of undefined"]]
         ELSE [status |-> "ok", error |-> NoError,
               inputs |-> << withoutScript(this.inputs[index.n + 1]) >>]
    ELSE [status |-> "throw", inputs |-> <<>>,
          error |-> [name |-> "Error",
                     message |-> "Unexpected value of the tag input"]]

\* hashWithoutScript, the output the hash covers: the real one, or for an
\* empty array the placeholder
PlaceholderOutput ==
    [lockScriptHash |-> ZeroH160, parameters |-> <<>>, amount |-> NullOf(U64Of(0))]

\* selectOutput taking any array for the empty one
selectOutput_anyArray(this, tag) ==
    IF ~tag.output.isArray /\ tag.output.str = "all"
    THEN [status |-> "ok", error |-> NoError, output |-> this.output]
    ELSE [status |-> "ok", error |-> NoError, output |-> PlaceholderOutput]

\* selectOutput whose placeholder has amount 0 where null is meant
selectOutput_zeroAmount(this, tag) ==
    IF ~tag.output.isArray /\ tag.output.str = "all"
    THEN [status |-> "ok", error |-> NoError, output |-> this.output]
    ELSE IF tag.output.isArray /\ Len(tag.output.arr) = 0
    THEN [status |-> "ok", error |-> NoError,
          output |-> [PlaceholderOutput EXCEPT !.amount = Some(U64Of(0))]]
    ELSE [status |-> "throw", output |-> PlaceholderOutput,
          error |-> [name |-> "Error",
                     message |-> "Unexpected value of the tag output"]]

selectOutput(this, tag) ==
    IF ~tag.output.isArray /\ tag.output.str = "all"
    THEN [status |-> "ok", error |-> NoError, output |-> this.output]
    ELSE IF tag.output.isArray /\ Len(tag.output.arr) = 0
    THEN [status |-> "ok", error |-> NoError,
          output |-> AssetMintOutput(PlaceholderOutput)]
    ELSE [status |-> "throw", output |-> PlaceholderOutput,
          error |-> [name |-> "Error",
                     message |-> "Unexpected value of the tag output"]]

hashWithoutScript(this, params) ==
    LET tag   == IF params.hasTag THEN params.tag ELSE DefaultTag
        index == params.index
        ins   == selectInputs(this, tag, index)
        out   == selectOutput(this, tag)
    IN
    IF ins.status = "throw" THEN Throw(ins.error.name, ins.error.message)
    ELSE IF out.status = "throw" THEN Throw(out.error.name, out.error.message)
    ELSE
    LET t == [networkId     |-> this.networkId,
              shardId       |-> this.shardId,
              metadata      |-> this.metadata,
              approver      |-> this.approver,
              administrator |-> this.administrator,
              inputs        |-> ins.inputs,
              output        |-> out.output]
    IN Return(HexOf(blake256WithKey(
                     RawMsg(rlpBytes(t)),
                     HexMsg(HexOf(blake128(RawMsg(encodeSignatureTag(tag))))))))

\* convertU16toHex: two hex digits of the high byte, two of the low byte
HexChars == << "0", "1", "2", "3", "4", "5", "6", "7",
              "8", "9", "a", "b", "c", "d", "e", "f" >>

RECURSIVE toString16(_)
toString16(n) ==
    IF n < 16 THEN << HexChars[n + 1] >>
    ELSE toString16(n \div 16) \o << HexChars[(n % 16) + 1] >>

\* s.slice(-k): the last k characters (all of s when it is shorter)
sliceLast(s, k) == IF Len(s) <= k THEN s ELSE SubSeq(s, Len(s) - k + 1, Len(s))

\* convertU16toHex without the zero padding of each byte
convertU16toHex_noPadding(id) ==
    toString16((id \div 256) % 256) \o toString16(id % 256)

convertU16toHex(id) ==
    LET hi == sliceLast(<<"0">> \o toString16((id \div 256) % 256), 2)
        lo == sliceLast(<<"0">> \o toString16(id % 256), 2)
    IN  hi \o lo

SchemeKey == Rep(8, 0) \o Rep(8, 255)
AssetKey  == Rep(16, 0)

getAssetSchemeAddress(this) ==
    LET blake       == HexOf(blake256WithKey(HexMsg(hash(this)), RawMsg(SchemeKey)))
        shardPrefix == convertU16toHex(this.shardId)
        prefix      == <<"5", "3", "0", "0">> \o shardPrefix
    IN  replacePrefix(blake, Len(prefix), prefix)

\* getAssetAddress computed with the key and the prefix of the scheme address
getAssetAddress_schemeKey(this) ==
    LET blake       == HexOf(blake256WithKey(HexMsg(hash(this)), RawMsg(SchemeKey)))
        shardPrefix == convertU16toHex(this.shardId)
        prefix      == <<"5", "3", "0", "0">> \o shardPrefix
    IN  replacePrefix(blake, Len(prefix), prefix)

getAssetAddress(this) ==
    LET blake       == HexOf(blake256WithKey(HexMsg(hash(this)), RawMsg(AssetKey)))
        shardPrefix == convertU16toHex(this.shardId)
        prefix      == <<"4", "1", "0", "0">> \o shardPrefix
    IN  replacePrefix(blake, Len(prefix), prefix)

----------------------------------------------------------------------------
\* Composed asset and asset scheme

\* new Asset({...}): the fields it is given
Asset(assetType, lockScriptHash, parameters, amount, transactionHash, transactionOutputIndex) ==
    [assetType |-> assetType, lockScriptHash |-> lockScriptHash,
     parameters |-> parameters, amount |-> amount,
     transactionHash |-> transactionHash,
     transactionOutputIndex |-> transactionOutputIndex]

\* getComposedAsset giving a null amount the maximum instead of throwing
getComposedAsset_maxOnNull(this) ==
    ReturnValue(Asset(getAssetSchemeAddress(this),
                      this.output.lockScriptHash,
                      this.output.parameters,
                      IF this.output.amount.isNull THEN U64Max
                                                   ELSE this.output.amount.v,
                      hash(this),
                      0))

getComposedAsset(this) ==
    IF this.output.amount.isNull
    THEN Throw("Error", "not implemented")
    ELSE ReturnValue(Asset(getAssetSchemeAddress(this),
                           this.output.lockScriptHash,
                           this.output.parameters,
                           IF this.output.amount.isNull THEN U64Max
                                                        ELSE this.output.amount.v,
                           hash(this),
                           0))

\* Sum of two U64 values, byte by byte from the least significant one, with
\* the carry out of the most significant byte
U64_sum(a, b) ==
    LET carry[k \in 1..9] ==
            IF k = 9 THEN 0 ELSE (a[k] + b[k] + carry[k + 1]) \div 256
    IN  [value    |-> [k \in 1..8 |-> (a[k] + b[k] + carry[k + 1]) % 256],
         overflow |-> carry[1] > 0]

\* What the arithmetic does with a sum above U64.MAX_VALUE: it is checked or
\* saturating, and which of the two is left open
OverflowModes == {"reject", "saturate"}

\* U64.plus(lhs, rhs).  lhs is undefined for the first amount of an asset
\* type, and the sum is then rhs.
U64_plus(lhs, rhs, mode) ==
    LET s == U64_sum(IF lhs.present THEN lhs.v ELSE U64Of(0), rhs)
    IN  IF ~s.overflow THEN [status |-> "ok", value |-> s.value]
        ELSE IF mode = "saturate" THEN [status |-> "ok", value |-> U64Max]
        ELSE [status |-> "throw", value |-> U64Max]

\* U64.plus without a range check: the sum modulo 2^64
U64_plus_wrapping(lhs, rhs, mode) ==
    [status |-> "ok",
     value  |-> U64_sum(IF lhs.present THEN lhs.v ELSE U64Of(0), rhs).value]

\* position of the entry of acc for assetType, 0 when it has none
PoolIndex(acc, assetType) ==
    IF \E i \in 1..Len(acc) : acc[i].assetType = assetType
    THEN CHOOSE i \in 1..Len(acc) : acc[i].assetType = assetType
    ELSE 0

RECURSIVE poolReduce_noGrouping(_, _, _)
\* the reduction adding one entry for every input
poolReduce_noGrouping(inputs, acc, mode) ==
    IF inputs = <<>> THEN [status |-> "ok", pool |-> acc]
    ELSE LET p == Head(inputs).prevOut
             s == U64_plus(Undefined(U64Of(0)), p.amount, mode)
         IN  poolReduce_noGrouping(Tail(inputs),
                 Append(acc, [assetType |-> p.assetType, amount |-> s.value]), mode)

RECURSIVE poolReduce_unchecked(_, _, _)
\* the reduction summing without a range check
poolReduce_unchecked(inputs, acc, mode) ==
    IF inputs = <<>> THEN [status |-> "ok", pool |-> acc]
    ELSE LET p == Head(inputs).prevOut
             i == PoolIndex(acc, p.assetType)
             s == U64_plus_wrapping(IF i = 0 THEN Undefined(U64Of(0))
                                             ELSE Present(acc[i].amount),
                                    p.amount, mode)
         IN  poolReduce_unchecked(Tail(inputs),
                 IF i = 0
                 THEN Append(acc, [assetType |-> p.assetType, amount |-> s.value])
                 ELSE [acc EXCEPT ![i].amount = s.value],
                 mode)

RECURSIVE poolReduce(_, _, _)
\* inputs.reduce(...) followed by _.toPairs: acc holds the pairs of the
\* accumulator object in the order its keys were first written
poolReduce(inputs, acc, mode) ==
    IF inputs = <<>> THEN [status |-> "ok", pool |-> acc]
    ELSE LET p == Head(inputs).prevOut
             i == PoolIndex(acc, p.assetType)
             s == U64_plus(IF i = 0 THEN Undefined(U64Of(0))
                                    ELSE Present(acc[i].amount),
                           p.amount, mode)
         IN  IF s.status = "throw" THEN [status |-> "throw", pool |-> acc]
             ELSE poolReduce(Tail(inputs),
                      IF i = 0
                      THEN Append(acc, [assetType |-> p.assetType, amount |-> s.value])
                      ELSE [acc EXCEPT ![i].amount = s.value],
                      mode)

\* new AssetScheme({...}): the fields it is given
AssetScheme(networkId, shardId, metadata, amount, approver, administrator, pool) ==
    [networkId |-> networkId, shardId |-> shardId, metadata |-> metadata,
     amount |-> amount, approver |-> approver, administrator |-> administrator,
     pool |-> pool]

getAssetScheme(this, mode) ==
    IF this.output.amount.isNull
    THEN Throw("Error", "not implemented")
    ELSE LET r == poolReduce(this.inputs, <<>>, mode)
         IN  IF r.status = "throw"
             THEN Throw("Error", "Integer overflow")
             ELSE ReturnValue(AssetScheme(this.networkId, this.shardId,
                                          this.metadata, this.output.amount.v,
                                          this.approver, this.administrator,
                                          r.pool))

----------------------------------------------------------------------------
\* Constructor.  The caller's params object is a list of (key, value) pairs in
\* the order the caller wrote them; the constructor reads each field by name.
\* inputs is a reference to the caller's array, which is stored as it is.

Get(params, key) ==
    LET i == CHOOSE j \in 1..Len(params) : params[j][1] = key IN params[i][2]

\* PlatformAddress.ensure of a PlatformAddress is that address
PlatformAddress_ensure(a) == a

\* constructor taking approver and administrator by position: the first of
\* the two keys in the params object as approver, the second as administrator
constructor_byPosition(params) ==
    LET ia == CHOOSE j \in 1..Len(params) : params[j][1] = "approver"
        id == CHOOSE j \in 1..Len(params) : params[j][1] = "administrator"
        first  == IF ia < id THEN ia ELSE id
        second == IF ia < id THEN id ELSE ia
    IN
    [networkId     |-> Get(params, "networkId"),
     shardId       |-> Get(params, "shardId"),
     metadata      |-> Get(params, "metadata"),
     approver      |-> params[first][2],
     administrator |-> params[second][2],
     inputs        |-> Get(params, "inputs"),
     output        |-> AssetMintOutput(Get(params, "output"))]

constructor(params) ==
    [networkId     |-> Get(params, "networkId"),
     shardId       |-> Get(params, "shardId"),
     metadata      |-> Get(params, "metadata"),
     approver      |-> IF Get(params, "approver").isNull
                       THEN Get(params, "approver")
                       ELSE Some(PlatformAddress_ensure(Get(params, "approver").v)),
     administrator |-> IF Get(params, "administrator").isNull
                       THEN Get(params, "administrator")
                       ELSE Some(PlatformAddress_ensure(Get(params, "administrator").v)),
     inputs        |-> Get(params, "inputs"),
     output        |-> AssetMintOutput(Get(params, "output"))]

----------------------------------------------------------------------------
\* addInputs.  An element of the argument list is an AssetTransferInput, an
\* Asset, or a value that is neither.

ElemInput(i) == [kind |-> "AssetTransferInput", input |-> <<i>>, asset |-> <<>>]
ElemAsset(a) == [kind |-> "Asset", input |-> <<>>, asset |-> <<a>>]
ElemOther    == [kind |-> "other", input |-> <<>>, asset |-> <<>>]

\* the arguments of a call: the first one, which is an element or an array of
\* elements, and the rest
ArgElement(e, rest) == [isArray |-> FALSE, first |-> <<e>>, rest |-> rest]
ArgArray(es, rest)  == [isArray |-> TRUE,  first |-> es,    rest |-> rest]
NoArgs == ArgArray(<<>>, <<>>)

\* Asset.createTransferInput: an input spending the asset, without scripts
Asset_createTransferInput(a) ==
    [prevOut |-> [transactionHash |-> a.transactionHash,
                  index           |-> a.transactionOutputIndex,
                  assetType       |-> a.assetType,
                  amount          |-> a.amount,
                  lockScriptHash  |-> Present(a.lockScriptHash),
                  parameters      |-> Present(a.parameters)],
     lockScript   |-> <<>>,
     unlockScript |-> <<>>]

\* the list that forEach walks: [inputs, ...rest] unless inputs is an array
ArgList(args) == IF ~args.isArray THEN args.first \o args.rest ELSE args.first

AddError == [name |-> "Error",
             message |-> "Expected an array of either AssetTransferInput or Asset"]

RECURSIVE forEachPush(_, _)
\* inputs.forEach(...): this.inputs after the walk, and the error that ended it
forEachPush(array, list) ==
    IF list = <<>> THEN [status |-> "ok", error |-> NoError, inputs |-> array]
    ELSE IF Head(list).kind = "AssetTransferInput"
    THEN forEachPush(Append(array, Head(list).input[1]), Tail(list))
    ELSE IF Head(list).kind = "Asset"
    THEN forEachPush(Append(array, Asset_createTransferInput(Head(list).asset[1])),
                     Tail(list))
    ELSE [status |-> "throw", error |-> AddError, inputs |-> array]

\* addInputs that returns without having pushed to this.inputs
addInputs_noPush(this, args) ==
    [status |-> forEachPush(this.inputs, ArgList(args)).status,
     error  |-> forEachPush(this.inputs, ArgList(args)).error,
     inputs |-> this.inputs]

addInputs(this, args) == forEachPush(this.inputs, ArgList(args))

----------------------------------------------------------------------------
\* JSON.  A hash is written as its hex digits, an amount as "0x" and its
\* hexadecimal digits, an address as its string; scripts and parameters are
\* arrays of numbers.

\* H256.value / H160.value: two lowercase hex digits for every byte
H_value(h) ==
    Flatten([k \in 1..Len(h) |->
               << HexChars[(h[k] \div 16) + 1], HexChars[(h[k] % 16) + 1] >>])

HexDigit(c) == CHOOSE d \in 0..15 : HexChars[d + 1] = c

\* new H256(value) / new H160(value): the bytes the hex digits stand for
H_new(value) ==
    [k \in 1..(Len(value) \div 2) |->
        16 * HexDigit(value[2 * k - 1]) + HexDigit(value[2 * k])]

\* U64.toString(16): the hexadecimal digits without leading zeros, "0" for zero
U64_toString16(u) ==
    LET digits == H_value(stripLeadingZeros(u))
    IN  IF digits = <<>> THEN <<"0">>
        ELSE IF Head(digits) = "0" THEN Tail(digits) ELSE digits

\* U64.ensure of a "0x..." string: the number the digits stand for
U64_ensure(str) ==
    LET digits == SubSeq(str, 3, Len(str))
    IN  H_new(Rep(16 - Len(digits), "0") \o digits)

AssetOutPoint_toJSON(p) ==
    [transactionHash |-> H_value(p.transactionHash),
     index           |-> p.index,
     assetType       |-> H_value(p.assetType),
     amount          |-> <<"0", "x">> \o U64_toString16(p.amount)]

\* new AssetOutPoint(data): lockScriptHash and parameters are undefined when
\* data has none
AssetOutPoint_fromJSON(data) ==
    [transactionHash |-> H_new(data.transactionHash),
     index           |-> data.index,
     assetType       |-> H_new(data.assetType),
     amount          |-> U64_ensure(data.amount),
     lockScriptHash  |-> Undefined(ZeroH160),
     parameters      |-> Undefined(<<>>)]

AssetTransferInput_toJSON(input) ==
    [prevOut      |-> AssetOutPoint_toJSON(input.prevOut),
     lockScript   |-> input.lockScript,
     unlockScript |-> input.unlockScript]

AssetTransferInput_fromJSON(obj) ==
    [prevOut      |-> AssetOutPoint_fromJSON(obj.prevOut),
     lockScript   |-> obj.lockScript,
     unlockScript |-> obj.unlockScript]

AssetMintOutput_toJSON(output) ==
    [lockScriptHash |-> H_value(output.lockScriptHash),
     parameters     |-> output.parameters,
     amount         |-> IF output.amount.isNull THEN NullOf(<<>>)
                        ELSE Some(<<"0", "x">> \o U64_toString16(output.amount.v))]

AssetMintOutput_fromJSON(obj) ==
    AssetMintOutput([lockScriptHash |-> H_new(obj.lockScriptHash),
                     parameters     |-> obj.parameters,
                     amount         |-> IF obj.amount.isNull THEN NullOf(U64Of(0))
                                        ELSE Some(U64_ensure(obj.amount.v))])

\* PlatformAddress.toString of an address is its string
PlatformAddress_toString(a) == a

toJSON(this) ==
    [type |-> "assetCompose",
     data |-> [networkId     |-> this.networkId,
               shardId       |-> this.shardId,
               metadata      |-> this.metadata,
               approver      |-> IF this.approver.isNull THEN NullOf(<<>>)
                                 ELSE Some(PlatformAddress_toString(this.approver.v)),
               administrator |-> IF this.administrator.isNull THEN NullOf(<<>>)
                                 ELSE Some(PlatformAddress_toString(this.administrator.v)),
               output        |-> AssetMintOutput_toJSON(this.output),
               inputs        |-> [k \in 1..Len(this.inputs) |->
                                     AssetTransferInput_toJSON(this.inputs[k])]]]

\* fromJSON: the transaction built from the JSON object, with the contents of
\* the new inputs array in place of a reference to it
fromJSON(obj) ==
    constructor(<<
        << "networkId", obj.data.networkId >>,
        << "shardId", obj.data.shardId >>,
        << "metadata", obj.data.metadata >>,
        << "approver", IF obj.data.approver.isNull THEN NullOf(<<>>)
                       ELSE Some(PlatformAddress_ensure(obj.data.approver.v)) >>,
        << "administrator", IF obj.data.administrator.isNull THEN NullOf(<<>>)
                            ELSE Some(PlatformAddress_ensure(obj.data.administrator.v)) >>,
        << "inputs", [k \in 1..Len(obj.data.inputs) |->
                         AssetTransferInput_fromJSON(obj.data.inputs[k])] >>,
        << "output", AssetMintOutput_fromJSON(obj.data.output) >> >>)

----------------------------------------------------------------------------
\* The values the model draws from

Str_tc   == <<116, 99>>
Str_cc   == <<99, 99>>
Str_abcd == <<97, 98, 99, 100>>
AddrA    == <<116, 99, 99, 113, 97>>
AddrB    == <<116, 99, 99, 113, 98>>
HashA    == Rep(32, 17)
HashB    == Rep(32, 34)
TypeA    == Rep(32, 170)
TypeB    == Rep(32, 187)
LshA     == Rep(20, 1)
LshB     == Rep(20, 2)

ShardIds == {0, 255, 256, 258, 4660, 65535}

OutPoint(h, i, t, a, lsh, ps) ==
    [transactionHash |-> h, index |-> i, assetType |-> t, amount |-> a,
     lockScriptHash |-> lsh, parameters |-> ps]
Input(p, ls, us) == [prevOut |-> p, lockScript |-> ls, unlockScript |-> us]

Input1 == Input(OutPoint(HashA, 0, TypeA, U64Of(30),
                         Undefined(ZeroH160), Undefined(<<>>)),
                <<1, 2>>, <<3>>)
Input2 == Input(OutPoint(HashB, 1, TypeA, U64Of(70),
                         Present(LshA), Present(<< <<9>> >>)),
                <<>>, <<>>)

\* every single-field change of an input
InputVariants(i) ==
    LET p == i.prevOut IN
    { [i EXCEPT !.prevOut.transactionHash = IF p.transactionHash = HashA THEN HashB ELSE HashA],
      [i EXCEPT !.prevOut.index = 1 - p.index],
      [i EXCEPT !.prevOut.assetType = IF p.assetType = TypeA THEN TypeB ELSE TypeA],
      [i EXCEPT !.prevOut.amount = IF p.amount = U64Max THEN U64Of(30) ELSE U64Max],
      [i EXCEPT !.prevOut.lockScriptHash =
           IF p.lockScriptHash.present THEN Undefined(ZeroH160) ELSE Present(LshB)],
      [i EXCEPT !.prevOut.parameters =
           IF p.parameters.present THEN Undefined(<<>>) ELSE Present(<< <<7>> >>)],
      [i EXCEPT !.lockScript = IF i.lockScript = <<>> THEN <<5>> ELSE <<>>],
      [i EXCEPT !.unlockScript = IF i.unlockScript = <<>> THEN <<6, 6>> ELSE <<>>] }

\* the arrays a caller starts from: Input1, Input2 in turn, from either one
Alternate(first, n) ==
    [i \in 1..n |-> IF (i % 2 = 1) = first THEN Input1 ELSE Input2]

BaseArrays == { Alternate(first, n) : first \in BOOLEAN, n \in 0..MaxInputs }

\* arrays that differ from a in one field of one input
ArrayVariants(a) ==
    UNION { {[a EXCEPT ![k] = v] : v \in InputVariants(a[k])} : k \in 1..Len(a) }

Output(lsh, ps, amt) == [lockScriptHash |-> lsh, parameters |-> ps, amount |-> amt]

\* the fields of a transaction other than its inputs
ScalarsA == [networkId |-> Str_tc, shardId |-> 258, metadata |-> Str_abcd,
             approver |-> Some(AddrA), administrator |-> NullOf(AddrA),
             output |-> Output(LshA, << <<9>> >>, Some(U64Of(100)))]
ScalarsB == [networkId |-> Str_cc, shardId |-> 0, metadata |-> <<>>,
             approver |-> NullOf(AddrA), administrator |-> Some(AddrB),
             output |-> Output(ZeroH160, <<>>, NullOf(U64Of(0)))]
BaseScalars == {ScalarsA, ScalarsB}

\* every single-field change of the fields other than the inputs
ScalarVariants(f) ==
    { [f EXCEPT !.networkId = IF f.networkId = Str_tc THEN Str_cc ELSE Str_tc],
      [f EXCEPT !.metadata = IF f.metadata = <<>> THEN Str_abcd ELSE <<>>],
      [f EXCEPT !.approver = IF f.approver.isNull THEN Some(AddrA) ELSE NullOf(AddrA)],
      [f EXCEPT !.approver = IF f.approver = Some(AddrB) THEN Some(AddrA) ELSE Some(AddrB)],
      [f EXCEPT !.administrator =
           IF f.administrator.isNull THEN Some(AddrA) ELSE NullOf(AddrA)],
      [f EXCEPT !.output.lockScriptHash =
           IF f.output.lockScriptHash = LshA THEN LshB ELSE LshA],
      [f EXCEPT !.output.parameters =
           IF f.output.parameters = <<>> THEN << <<9>> >> ELSE <<>>],
      [f EXCEPT !.output.amount =
           IF f.output.amount.isNull THEN Some(U64Of(0)) ELSE NullOf(U64Of(0))],
      [f EXCEPT !.output.amount =
           IF f.output.amount = Some(U64Max) THEN Some(U64Of(1)) ELSE Some(U64Max)] }
    \cup { [f EXCEPT !.shardId = sh] : sh \in ShardIds \ {f.shardId} }

\* key orders in which a caller writes the params object
Keys == << "networkId", "shardId", "metadata", "approver", "administrator",
           "inputs", "output" >>
KeysReversed == [i \in 1..Len(Keys) |-> Keys[Len(Keys) + 1 - i]]
Orders == {Keys, KeysReversed}

ParamsObject(f, inputs, ord) ==
    LET all == [networkId |-> <<f.networkId>>, shardId |-> <<f.shardId>>,
                metadata |-> <<f.metadata>>, approver |-> <<f.approver>>,
                administrator |-> <<f.administrator>>, inputs |-> <<inputs>>,
                output |-> <<f.output>>]
    IN  [i \in 1..Len(ord) |-> << ord[i], all[ord[i]][1] >>]

\* the second transaction a caller builds next to one with fields f and an
\* inputs array of contents a: which fields, which array (ref 1 is the same
\* array object as the first transaction's), in which key order
Second(f, ref, array, ord) == [f |-> f, ref |-> ref, array |-> array, order |-> ord]

SecondChoices(f, a) ==
    { Second(f, 1, <<>>, o) : o \in Orders }
    \cup { Second(f, 2, a, KeysReversed) }
    \cup { Second(g, 1, <<>>, Keys) : g \in ScalarVariants(f) }
    \cup { Second(f, 2, b, Keys) : b \in ArrayVariants(a) \cup BaseArrays }
    \cup { Second([f EXCEPT !.output = h.output], 2, b, Keys) :
              h \in BaseScalars \ {f}, b \in BaseArrays }

Objects == {1, 2}

\* `this` of object o, with the contents of its inputs array
This(o) == [tx[o] EXCEPT !.inputs = heap[tx[o].inputs]]

\* arguments given to hashWithoutScript
TagOutputs == {OutAll, OutArray(<<>>), OutArray(<<0>>)}
ParamChoices ==
    {NoParams, Params(Tag("none", OutAll), NullIndex),
     Params(Tag("all", OutAll), NumIndex(0))}
    \cup { Params(Tag("all", o), NullIndex) : o \in TagOutputs }
    \cup { Params(Tag("single", o), i) :
              o \in TagOutputs,
              i \in {NullIndex} \cup {NumIndex(n) : n \in (0 - 1)..MaxInputs} }

----------------------------------------------------------------------------
\* P2PKHBurn.createUnlockScript.  burn is the one call of it that a behaviour
\* follows: where it stands, what it was given, the requests it has made to
\* the key store and what they settled to, and what its promise settled to.

PUSHB == 50

\* options.passphrase and options.signatureTag, each given or omitted
NoOption(dflt) == [present |-> FALSE, v |-> dflt]
Option(x)      == [present |-> TRUE, v |-> x]

Pending  == [state |-> "pending",  v |-> <<>>, error |-> NoError]
Resolved(x) == [state |-> "resolved", v |-> x, error |-> NoError]
ResolvedNull == [state |-> "null", v |-> <<>>, error |-> NoError]
Rejected(e) == [state |-> "rejected", v |-> <<>>, error |-> e]

BurnIdle ==
    [pc |-> "idle", publicKeyHash |-> <<>>, txhash |-> NoH256,
     passphrase |-> NoOption(<<>>), signatureTag |-> NoOption(DefaultTag),
     requests |-> <<>>, publicKey |-> Pending, signature |-> Pending,
     promise |-> Pending]

KeyStoreRequest(op, key, message, passphrase) ==
    [op |-> op, key |-> key, message |-> message, passphrase |-> passphrase]

\* the call up to its first await: getPublicKey is requested
createUnlockScript(publicKeyHash, txhash, passphrase, signatureTag) ==
    [BurnIdle EXCEPT
        !.pc = "getPublicKey",
        !.publicKeyHash = publicKeyHash,
        !.txhash = txhash,
        !.passphrase = passphrase,
        !.signatureTag = signatureTag,
        !.requests = << KeyStoreRequest("getPublicKey", publicKeyHash, NoH256,
                                        passphrase) >>]

UnableToGetKey ==
    [name |-> "Error",
     message |-> "Unable to get original key from the given public key hash"]

\* the continuation signing whatever getPublicKey resolved to
afterGetPublicKey_noKeyCheck(b, outcome) ==
    IF outcome.state = "rejected"
    THEN [b EXCEPT !.pc = "rejected", !.publicKey = outcome,
                   !.promise = Rejected(outcome.error)]
    ELSE [b EXCEPT !.pc = "sign", !.publicKey = outcome,
                   !.requests = Append(b.requests,
                        KeyStoreRequest("sign", b.publicKeyHash, b.txhash,
                                        b.passphrase))]

\* the continuation after getPublicKey settles: a rejection rejects the
\* call, no key throws, a key requests the signature of txhash.value
afterGetPublicKey(b, outcome) ==
    IF outcome.state = "rejected"
    THEN [b EXCEPT !.pc = "rejected", !.publicKey = outcome,
                   !.promise = Rejected(outcome.error)]
    ELSE IF outcome.state = "null"
    THEN [b EXCEPT !.pc = "rejected", !.publicKey = outcome,
                   !.promise = Rejected(UnableToGetKey)]
    ELSE [b EXCEPT !.pc = "sign", !.publicKey = outcome,
                   !.requests = Append(b.requests,
                        KeyStoreRequest("sign", b.publicKeyHash, b.txhash,
                                        b.passphrase))]

\* Buffer.from([PUSHB, 65, ...signature bytes, PUSHB, tag length, ...tag])
unlockScript(signature, signatureTag) ==
    LET encodedTag == encodeSignatureTag(signatureTag)
    IN  <<PUSHB, 65>> \o H_new(signature) \o <<PUSHB, Len(encodedTag)>> \o encodedTag

\* the script with the tag bytes first and the signature last
unlockScript_tagFirst(signature, signatureTag) ==
    LET encodedTag == encodeSignatureTag(signatureTag)
    IN  <<PUSHB, Len(encodedTag)>> \o encodedTag \o <<PUSHB, 65>> \o H_new(signature)

\* the continuation after sign settles
afterSign(b, outcome) ==
    IF outcome.state = "rejected"
    THEN [b EXCEPT !.pc = "rejected", !.signature = outcome,
                   !.promise = Rejected(outcome.error)]
    ELSE [b EXCEPT !.pc = "resolved", !.signature = outcome,
                   !.promise = Resolved(unlockScript(outcome.v,
                        IF b.signatureTag.present THEN b.signatureTag.v
                                                  ELSE DefaultTag))]

Call(o, op, params) == [obj |-> o, op |-> op, params |-> params, args |-> NoArgs]
CallAdd(o, args)    == [obj |-> o, op |-> "addInputs", params |-> NoParams, args |-> args]

\* arguments given to addInputs
AssetX == Asset(TypeB, LshB, << <<7>> >>, U64Of(5), HashB, 2)
ArgChoices ==
    { ArgElement(ElemInput(Input2), <<>>),
      ArgElement(ElemAsset(AssetX), <<>>),
      ArgElement(ElemOther, <<>>),
      ArgElement(ElemInput(Input2), <<ElemAsset(AssetX)>>),
      ArgElement(ElemAsset(AssetX), <<ElemOther>>),
      ArgArray(<<>>, <<>>),
      ArgArray(<<ElemAsset(AssetX), ElemInput(Input2)>>, <<>>),
      ArgArray(<<ElemInput(Input2), ElemOther>>, <<>>),
      ArgArray(<<ElemOther, ElemInput(Input2)>>, <<>>),
      ArgArray(<<ElemInput(Input2)>>, <<ElemAsset(AssetX)>>) }

Init ==
    \E a \in BaseArrays, f \in BaseScalars :
      \E s \in SecondChoices(f, a) :
        /\ heap = << a, s.array >>
        /\ tx = << constructor(ParamsObject(f, 1, Keys)),
                   constructor(ParamsObject(s.f, s.ref, s.order)) >>
        /\ order = << Keys, s.order >>
        /\ call = Call(0, "new", NoParams)
        /\ ret = Return(NoH256)
        /\ burn = BurnIdle

ToEncodeObject(o) ==
    /\ call' = Call(o, "toEncodeObject", NoParams)
    /\ ret' = ReturnObject(toEncodeObject(This(o)))
    /\ UNCHANGED <<heap, tx, order, burn>>

RlpBytes(o) ==
    /\ call' = Call(o, "rlpBytes", NoParams)
    /\ ret' = ReturnBytes(rlpBytes(This(o)))
    /\ UNCHANGED <<heap, tx, order, burn>>

Hash(o) ==
    /\ call' = Call(o, "hash", NoParams)
    /\ ret' = Return(hash(This(o)))
    /\ UNCHANGED <<heap, tx, order, burn>>

HashWithoutScript(o, params) ==
    /\ call' = Call(o, "hashWithoutScript", params)
    /\ ret' = hashWithoutScript(This(o), params)
    /\ UNCHANGED <<heap, tx, order, burn>>

GetAssetSchemeAddress(o) ==
    /\ call' = Call(o, "getAssetSchemeAddress", NoParams)
    /\ ret' = Return(getAssetSchemeAddress(This(o)))
    /\ UNCHANGED <<heap, tx, order, burn>>

GetAssetAddress(o) ==
    /\ call' = Call(o, "getAssetAddress", NoParams)
    /\ ret' = Return(getAssetAddress(This(o)))
    /\ UNCHANGED <<heap, tx, order, burn>>

GetComposedAsset(o) ==
    /\ call' = Call(o, "getComposedAsset", NoParams)
    /\ ret' = getComposedAsset(This(o))
    /\ UNCHANGED <<heap, tx, order, burn>>

GetAssetScheme(o) ==
    /\ call' = Call(o, "getAssetScheme", NoParams)
    /\ \E mode \in OverflowModes : ret' = getAssetScheme(This(o), mode)
    /\ UNCHANGED <<heap, tx, order, burn>>

ToJSON(o) ==
    /\ call' = Call(o, "toJSON", NoParams)
    /\ ret' = ReturnValue(toJSON(This(o)))
    /\ UNCHANGED <<heap, tx, order, burn>>

\* AssetComposeTransaction.fromJSON of the JSON object the last call returned
FromJSON ==
    /\ call.op = "toJSON"
    /\ call' = Call(call.obj, "fromJSON", NoParams)
    /\ ret' = ReturnValue(fromJSON(ret.obj[1]))
    /\ UNCHANGED <<heap, tx, order, burn>>

Next ==
    \/ FromJSON
    \/ \E o \in Objects :
      \/ ToEncodeObject(o)
      \/ RlpBytes(o)
      \/ Hash(o)
      \/ \E params \in ParamChoices : HashWithoutScript(o, params)
      \/ GetAssetSchemeAddress(o)
      \/ GetAssetAddress(o)
      \/ GetComposedAsset(o)
      \/ GetAssetScheme(o)
      \/ ToJSON(o)

Spec == Init /\ [][Next]_vars

----------------------------------------------------------------------------
\* Transactions that are added to after construction

\* two transactions built from one caller's array, or from two arrays of the
\* same contents
InitAdd ==
    \E a \in {<<>>, <<Input1>>}, shared \in BOOLEAN, f \in BaseScalars :
        /\ heap = << a, IF shared THEN <<>> ELSE a >>
        /\ tx = << constructor(ParamsObject(ScalarsA, 1, Keys)),
                   constructor(ParamsObject(f, IF shared THEN 1 ELSE 2, Keys)) >>
        /\ order = << Keys, Keys >>
        /\ call = Call(0, "new", NoParams)
        /\ ret = Return(NoH256)
        /\ burn = BurnIdle

\* addInputs pushes to the array this.inputs refers to; `this` is returned
AddInputs(o, args) ==
    LET r == addInputs(This(o), args) IN
    /\ Len(This(o).inputs) + Len(ArgList(args)) <= MaxInputs
    /\ heap' = [heap EXCEPT ![tx[o].inputs] = r.inputs]
    /\ call' = CallAdd(o, args)
    /\ ret' = IF r.status = "ok" THEN ReturnValue(o)
              ELSE Throw(r.error.name, r.error.message)
    /\ UNCHANGED <<tx, order, burn>>

NextAdd ==
    \E o \in Objects :
      \/ \E args \in ArgChoices : AddInputs(o, args)
      \/ ToEncodeObject(o)
      \/ RlpBytes(o)
      \/ Hash(o)
      \/ HashWithoutScript(o, NoParams)
      \/ GetAssetSchemeAddress(o)
      \/ GetAssetAddress(o)
      \/ GetComposedAsset(o)
      \/ GetAssetScheme(o)
      \/ ToJSON(o)

SpecAdd == InitAdd /\ [][NextAdd]_vars

----------------------------------------------------------------------------
\* Creating the unlock script of a burn: the transaction is built, and its
\* signing hash or its hash is handed to createUnlockScript.

InitBurn ==
    \E a \in {<<>>, <<Input1>>} :
        /\ heap = << a, <<>> >>
        /\ tx = << constructor(ParamsObject(ScalarsA, 1, Keys)),
                   constructor(ParamsObject(ScalarsB, 2, Keys)) >>
        /\ order = << Keys, Keys >>
        /\ call = Call(0, "new", NoParams)
        /\ ret = Return(NoH256)
        /\ burn = BurnIdle

KeyHashes == { Rep(20, 51), Rep(20, 68) }
PublicKeys == { Rep(64, 4) }
Passphrases == { NoOption(<<>>), Option(<<112, 119>>) }
SignatureTags ==
    { NoOption(DefaultTag) }
    \cup { Option(Tag(i, o)) : i \in {"all", "single"}, o \in {OutAll, OutArray(<<>>)} }
Signatures == { H_value(Rep(65, 171)), H_value(<<27>> \o Rep(64, 18)) }
KeyStoreErrors == { [name |-> "Error", message |-> "key store is locked"],
                    [name |-> "Error", message |-> "wrong passphrase"] }

CreateUnlockScript ==
    /\ burn.pc = "idle"
    /\ \E publicKeyHash \in KeyHashes,
          txhash \in { hash(This(1)), hashWithoutScript(This(1), NoParams).value },
          passphrase \in Passphrases, signatureTag \in SignatureTags :
         burn' = createUnlockScript(publicKeyHash, txhash, passphrase, signatureTag)
    /\ UNCHANGED <<heap, tx, order, call, ret>>

\* keyStore.asset.getPublicKey resolves, with a key or with null
GetPublicKeyResolves ==
    /\ burn.pc = "getPublicKey"
    /\ \E outcome \in {Resolved(k) : k \in PublicKeys} \cup {ResolvedNull} :
         burn' = afterGetPublicKey(burn, outcome)
    /\ UNCHANGED <<heap, tx, order, call, ret>>

GetPublicKeyRejects ==
    /\ burn.pc = "getPublicKey"
    /\ \E e \in KeyStoreErrors : burn' = afterGetPublicKey(burn, Rejected(e))
    /\ UNCHANGED <<heap, tx, order, call, ret>>

\* keyStore.asset.sign resolves with a signature
SignResolves ==
    /\ burn.pc = "sign"
    /\ \E signature \in Signatures : burn' = afterSign(burn, Resolved(signature))
    /\ UNCHANGED <<heap, tx, order, call, ret>>

SignRejects ==
    /\ burn.pc = "sign"
    /\ \E e \in KeyStoreErrors : burn' = afterSign(burn, Rejected(e))
    /\ UNCHANGED <<heap, tx, order, call, ret>>

NextBurn ==
    \/ CreateUnlockScript
    \/ GetPublicKeyResolves
    \/ GetPublicKeyRejects
    \/ SignResolves
    \/ SignRejects

SpecBurn == InitBurn /\ [][NextBurn]_vars

----------------------------------------------------------------------------
\* Properties

\* the receiver of the last call, and the tag and index it was given
Receiver == This(call.obj)
CalledTag == IF call.params.hasTag THEN call.params.tag ELSE DefaultTag
CalledIndex == call.params.index
Called(op) == call.op = op

IsOutAll(o)   == ~o.isArray /\ o.str = "all"
IsOutEmpty(o) == o.isArray /\ o.arr = <<>>
ValidIndex(t, index) == index.isNumber /\ index.n \in 0..(Len(t.inputs) - 1)
IndexError == [name |-> "Error", message |-> "Unexpected value of the index"]
OutputError == [name |-> "Error", message |-> "Unexpected value of the tag output"]

\* the transaction T' the signing hash is the keyed hash of
Scoped(t, tag, index) ==
    [networkId     |-> t.networkId,
     shardId       |-> t.shardId,
     metadata      |-> t.metadata,
     approver      |-> t.approver,
     administrator |-> t.administrator,
     inputs        |-> IF tag.input = "all"
                       THEN [k \in 1..Len(t.inputs) |-> withoutScript(t.inputs[k])]
                       ELSE << withoutScript(t.inputs[index.n + 1]) >>,
     output        |-> IF IsOutAll(tag.output) THEN t.output
                       ELSE [lockScriptHash |-> Rep(20, 0), parameters |-> <<>>,
                             amount |-> NullOf(U64Of(0))]]

SigningHash(t, tag, index) ==
    HexOf(blake256WithKey(RawMsg(RLPencode(toEncodeObject(Scoped(t, tag, index)))),
                          HexMsg(HexOf(blake128(RawMsg(encodeSignatureTag(tag)))))))

ValidScope(t, tag, index) ==
    /\ tag.input \in {"all", "single"}
    /\ tag.input = "single" => ValidIndex(t, index)
    /\ IsOutAll(tag.output) \/ IsOutEmpty(tag.output)

\* C1: hashWithoutScript with a valid tag (and, for "single", an index of an
\* input) returns the hash, keyed with hash128 of the encoded tag, of the
\* encoding of the transaction with the same networkId, shardId, metadata,
\* approver and administrator, whose inputs are all inputs without scripts
\* ("all") or the selected input alone without scripts ("single"), and whose
\* output is the real one ("all") or the zero placeholder ([]); without
\* arguments the tag is {input: "all", output: "all"}.
C1_SigningHash ==
    (Called("hashWithoutScript") /\ ValidScope(Receiver, CalledTag, CalledIndex))
    => /\ ret.status = "ok"
       /\ ret.value = SigningHash(Receiver, CalledTag, CalledIndex)
       /\ call.params = NoParams
             => ret.value = SigningHash(Receiver, Tag("all", OutAll), NullIndex)

C1_Witness ==
    /\ Called("hashWithoutScript")
    /\ CalledTag = Tag("single", OutArray(<<>>))
    /\ CalledIndex = NumIndex(1)
    /\ Len(Receiver.inputs) = 2
    /\ Receiver.inputs[1].lockScript # <<>>
    /\ ret.status = "ok"

\* two transactions equal in every field but the scripts of their inputs
EqualButScripts(a, b) ==
    /\ [a EXCEPT !.inputs = <<>>] = [b EXCEPT !.inputs = <<>>]
    /\ Len(a.inputs) = Len(b.inputs)
    /\ \A k \in 1..Len(a.inputs) : a.inputs[k].prevOut = b.inputs[k].prevOut

\* C2: with tag {input: "all", output: "all"}, two transactions that differ
\* only in the lockScript / unlockScript of their inputs have the same
\* hashWithoutScript.
C2_ScriptInvariance ==
    (Called("hashWithoutScript") /\ CalledTag = Tag("all", OutAll))
    => \A p \in Objects :
         EqualButScripts(Receiver, This(p))
         => hashWithoutScript(This(p), call.params) = ret

C2_Witness ==
    /\ Called("hashWithoutScript") /\ CalledTag = Tag("all", OutAll)
    /\ ret.status = "ok"
    /\ \E p \in Objects :
         /\ EqualButScripts(Receiver, This(p))
         /\ This(p) # Receiver

\* two transactions with the same scalar fields and the same prevOut at index i
SameSelected(a, b, i) ==
    /\ a.networkId = b.networkId /\ a.shardId = b.shardId
    /\ a.metadata = b.metadata
    /\ a.approver = b.approver /\ a.administrator = b.administrator
    /\ i + 1 \in 1..Len(a.inputs) /\ i + 1 \in 1..Len(b.inputs)
    /\ a.inputs[i + 1].prevOut = b.inputs[i + 1].prevOut

\* C3: with tag {input: "single", output: []} and a valid index i, the hash
\* depends on no input other than inputs[i], nor on how many there are, nor on
\* the output.
C3_SingleInvariance ==
    (Called("hashWithoutScript") /\ CalledTag = Tag("single", OutArray(<<>>))
       /\ ValidIndex(Receiver, CalledIndex))
    => \A p \in Objects :
         SameSelected(Receiver, This(p), CalledIndex.n)
         => hashWithoutScript(This(p), call.params) = ret

C3_Witness ==
    /\ Called("hashWithoutScript") /\ CalledTag = Tag("single", OutArray(<<>>))
    /\ ValidIndex(Receiver, CalledIndex)
    /\ ret.status = "ok"
    /\ \E p \in Objects :
         /\ SameSelected(Receiver, This(p), CalledIndex.n)
         /\ This(p).output # Receiver.output
         /\ Len(This(p).inputs) # Len(Receiver.inputs)

\* C4: input "single" without a numeric index throws the index error and
\* returns no hash, whatever tag.output is.
C4_MissingIndex ==
    (Called("hashWithoutScript") /\ CalledTag.input = "single"
       /\ ~CalledIndex.isNumber)
    => /\ ret.status = "throw"
       /\ ret.error = IndexError
       /\ ret.value = NoH256

C4_Witness ==
    /\ Called("hashWithoutScript") /\ CalledTag.input = "single"
    /\ ~CalledIndex.isNumber
    /\ CalledTag.output = OutArray(<<0>>)
    /\ Len(Receiver.inputs) > 0
    /\ ret.status = "throw"

\* C5: input "single" with a numeric index that is no index of an input
\* throws the same index error as a missing index, and returns no hash.
C5_IndexOutOfRange ==
    (Called("hashWithoutScript") /\ CalledTag.input = "single"
       /\ CalledIndex.isNumber /\ ~ValidIndex(Receiver, CalledIndex))
    => /\ ret.status = "throw"
       /\ ret.error = IndexError
       /\ ret.value = NoH256

\* C6: a tag.output that is neither "all" nor the empty array throws the
\* tag output error and returns no hash, for every otherwise valid input
\* and index.
C6_InvalidOutput ==
    (Called("hashWithoutScript")
       /\ (CalledTag.input = "all"
            \/ (CalledTag.input = "single" /\ ValidIndex(Receiver, CalledIndex)))
       /\ ~IsOutAll(CalledTag.output) /\ ~IsOutEmpty(CalledTag.output))
    => /\ ret.status = "throw"
       /\ ret.error = OutputError
       /\ ret.value = NoH256

C6_Witness ==
    /\ Called("hashWithoutScript")
    /\ CalledTag = Tag("single", OutArray(<<0>>))
    /\ ValidIndex(Receiver, CalledIndex)
    /\ ret.status = "throw"

\* C7: toEncodeObject returns ten elements in this order: 6, networkId,
\* shardId, metadata, approver, administrator, the encoded inputs in input
\* order, the output's lockScriptHash, parameters and amount; approver,
\* administrator and amount are a one-element list when present and the empty
\* list when null.
C7_EncodeObject ==
    Called("toEncodeObject")
    => LET t == Receiver
           e == ret.enc.l
           Optional(x, field) ==
               /\ x.k = "list"
               /\ field.isNull => x.l = <<>>
               /\ ~field.isNull => (Len(x.l) = 1 /\ x.l[1].k # "list")
       IN  /\ ret.status = "ok"
           /\ ret.enc.k = "list"
           /\ Len(e) = 10
           /\ e[1] = Num(6)
           /\ e[2] = Bytes(t.networkId)
           /\ e[3] = Num(t.shardId)
           /\ e[4] = Bytes(t.metadata)
           /\ Optional(e[5], t.approver)
           /\ ~t.approver.isNull => e[5].l[1] = Bytes(t.approver.v)
           /\ Optional(e[6], t.administrator)
           /\ ~t.administrator.isNull => e[6].l[1] = Bytes(t.administrator.v)
           /\ e[7].k = "list"
           /\ Len(e[7].l) = Len(t.inputs)
           /\ \A k \in 1..Len(t.inputs) :
                 e[7].l[k] = AssetTransferInput_toEncodeObject(t.inputs[k])
           /\ e[8] = Bytes(t.output.lockScriptHash)
           /\ e[9].k = "list"
           /\ Len(e[9].l) = Len(t.output.parameters)
           /\ \A k \in 1..Len(t.output.parameters) :
                 e[9].l[k] = Bytes(t.output.parameters[k])
           /\ Optional(e[10], t.output.amount)
           /\ ~t.output.amount.isNull
                 => e[10].l[1] = Bytes(stripLeadingZeros(t.output.amount.v))

C7_Witness ==
    /\ Called("toEncodeObject")
    /\ Receiver.approver.isNull /\ ~Receiver.administrator.isNull
    /\ Receiver.output.amount.isNull
    /\ Len(Receiver.inputs) = 2
    /\ ret.status = "ok"

\* the fields of t as a caller supplies them, in key order ord, constructed
\* anew (the inputs array being the same array)
Rebuilt(o, ord) ==
    LET t == constructor(ParamsObject(tx[o], tx[o].inputs, ord))
    IN  [t EXCEPT !.inputs = heap[t.inputs]]

\* C8: hash() is hash256 of the encoding of toEncodeObject(), and depends on
\* the field values alone: a transaction built from the same fields in any
\* key order, and any transaction with equal fields, has the same hash, and
\* a repeated hash() on the unchanged transaction returns the same value.
C8_HashOfFields ==
    Called("hash")
    => /\ ret.status = "ok"
       /\ ret.value = HexOf(blake256(RawMsg(RLPencode(toEncodeObject(Receiver)))))
       /\ \A ord \in Orders : hash(Rebuilt(call.obj, ord)) = ret.value
       /\ \A p \in Objects : This(p) = Receiver => hash(This(p)) = ret.value

\* C8, with the repeated call: in every state the hash returned is the one
\* above, and a hash() that follows a hash() on the same unchanged transaction
\* returns the same value.
C8_HashDeterminism ==
    /\ []C8_HashOfFields
    /\ [][(Called("hash") /\ call'.op = "hash" /\ call'.obj = call.obj
             /\ tx' = tx /\ heap' = heap) => ret' = ret]_vars

C8_Witness ==
    /\ Called("hash")
    /\ \E p \in Objects :
         /\ p # call.obj
         /\ This(p) = Receiver
         /\ order[p] # order[call.obj]
    /\ ~Receiver.approver.isNull /\ Receiver.administrator.isNull
    /\ Len(Receiver.inputs) > 0

\* the fields in which two transactions with as many inputs differ, each
\* named by (owner, input number or 0, field)
Differences(a, b) ==
    { <<"transaction", 0, f>> :
        f \in { g \in {"networkId", "shardId", "metadata", "approver",
                        "administrator"} : a[g] # b[g] } }
    \cup { <<"output", 0, f>> :
        f \in { g \in {"lockScriptHash", "parameters", "amount"} :
                  a.output[g] # b.output[g] } }
    \cup UNION { { <<"prevOut", k, f>> :
                    f \in { g \in {"transactionHash", "index", "assetType",
                                    "amount", "lockScriptHash", "parameters"} :
                              a.inputs[k].prevOut[g] # b.inputs[k].prevOut[g] } }
                 \cup { <<"input", k, f>> :
                    f \in { g \in {"lockScript", "unlockScript"} :
                              a.inputs[k][g] # b.inputs[k][g] } }
               : k \in 1..Len(a.inputs) }

DifferInOneField(a, b) ==
    /\ Len(a.inputs) = Len(b.inputs)
    /\ Cardinality(Differences(a, b)) = 1

\* the fields of an AssetOutPoint that its encode object leaves out
Unencoded(d) == d[1] = "prevOut" /\ d[3] \in {"lockScriptHash", "parameters"}

\* C9 as claimed: two transactions that differ in exactly one field, any
\* field of the transaction, its output or its inputs (the prevOut's
\* lockScriptHash and parameters included), have different encode objects
\* and different hashes.
C9_AnyFieldChangesHash ==
    Called("hash")
    => \A p \in Objects :
         DifferInOneField(Receiver, This(p))
         => /\ toEncodeObject(This(p)) # toEncodeObject(Receiver)
            /\ hash(This(p)) # ret.value

\* C9 amended: two transactions that differ in exactly one field have
\* different encode objects and different hashes, unless the field is the
\* lockScriptHash or the parameters of an input's prevOut: these two are no
\* part of the encode object, and the hashes are then equal.
C9_EncodedFieldChangesHash ==
    Called("hash")
    => \A p \in Objects :
         DifferInOneField(Receiver, This(p))
         => IF \E d \in Differences(Receiver, This(p)) : Unencoded(d)
            THEN /\ toEncodeObject(This(p)) = toEncodeObject(Receiver)
                 /\ hash(This(p)) = ret.value
            ELSE /\ toEncodeObject(This(p)) # toEncodeObject(Receiver)
                 /\ hash(This(p)) # ret.value

C9_Witness ==
    /\ Called("hash")
    /\ \E p \in Objects :
         /\ Len(This(p).inputs) = 2
         /\ Len(Receiver.inputs) = 2
         /\ Differences(Receiver, This(p)) = { <<"prevOut", 2, "index">> }
    /\ ret.status = "ok"

\* the four hex digits of a 16-bit number, most significant first
ShardHex(id) ==
    << HexChars[((id \div 4096) % 16) + 1], HexChars[((id \div 256) % 16) + 1],
       HexChars[((id \div 16) % 16) + 1],   HexChars[(id % 16) + 1] >>

\* a 64-digit address: eight given digits, then digits 9..64 of a digest
Address(head, digest) == [lit |-> head, src |-> <<digest>>, from |-> 9]

\* C10: getAssetSchemeAddress is 64 hex digits, "53", "00", the shard id as
\* four big-endian hex digits, then digits 9..64 of hash256WithKey(hash(),
\* eight 0x00 and eight 0xff bytes); getAssetAddress likewise with "41" and a
\* key of sixteen 0x00 bytes; shard 0x0102 gives "53000102" and "41000102".
C10_AddressLayout ==
    /\ Called("getAssetSchemeAddress")
       => /\ ret.status = "ok"
          /\ StrLen(ret.value) = 64
          /\ Len(ret.value.lit) = 8
          /\ ret.value =
               Address(<<"5", "3", "0", "0">> \o ShardHex(Receiver.shardId),
                       blake256WithKey(HexMsg(hash(Receiver)),
                                       RawMsg(Rep(8, 0) \o Rep(8, 255))))
          /\ Receiver.shardId = 258
               => ret.value.lit = <<"5", "3", "0", "0", "0", "1", "0", "2">>
    /\ Called("getAssetAddress")
       => /\ ret.status = "ok"
          /\ StrLen(ret.value) = 64
          /\ Len(ret.value.lit) = 8
          /\ ret.value =
               Address(<<"4", "1", "0", "0">> \o ShardHex(Receiver.shardId),
                       blake256WithKey(HexMsg(hash(Receiver)),
                                       RawMsg(Rep(16, 0))))
          /\ Receiver.shardId = 258
               => ret.value.lit = <<"4", "1", "0", "0", "0", "1", "0", "2">>

C10_Witness ==
    /\ Called("getAssetSchemeAddress")
    /\ Receiver.shardId = 258
    /\ ret.value.lit = <<"5", "3", "0", "0", "0", "1", "0", "2">>
    /\ \E p \in Objects : This(p).shardId = 255

\* the fields of transaction o after the step
ThisAfter(o) == [tx'[o] EXCEPT !.inputs = heap'[tx'[o].inputs]]

\* C11: on one transaction getAssetSchemeAddress() and getAssetAddress() are
\* always different, and each is stable: no call of hash, hashWithoutScript,
\* toJSON, getAssetScheme, getComposedAsset or of an address changes a field
\* of any transaction, and an address call returns the address of the fields
\* as they were before the call, which differs from the other address of the
\* fields as they are after it.
C11_AddressesDistinctAndStable ==
    [][ \A o \in Objects :
          /\ ThisAfter(o) = This(o)
          /\ (call'.obj = o /\ call'.op = "getAssetSchemeAddress")
               => /\ ret'.status = "ok"
                  /\ ret'.value = getAssetSchemeAddress(This(o))
                  /\ ret'.value # getAssetAddress(ThisAfter(o))
          /\ (call'.obj = o /\ call'.op = "getAssetAddress")
               => /\ ret'.status = "ok"
                  /\ ret'.value = getAssetAddress(This(o))
                  /\ ret'.value # getAssetSchemeAddress(ThisAfter(o)) ]_vars

C11_Witness ==
    /\ Called("getAssetAddress")
    /\ ret.status = "ok"
    /\ ret.value = getAssetAddress(Receiver)
    /\ ret.value # getAssetSchemeAddress(Receiver)
    /\ Len(Receiver.inputs) > 0

\* Sums wider than a U64: nine big-endian bytes, enough for the sum of up to
\* 256 amounts
Wide(u) == <<0>> \o u
WideAdd(a, b) ==
    LET carry[k \in 1..10] ==
            IF k = 10 THEN 0 ELSE (a[k] + b[k] + carry[k + 1]) \div 256
    IN  [k \in 1..9 |-> (a[k] + b[k] + carry[k + 1]) % 256]
RECURSIVE TypeTotal(_, _)
\* the sum of prevOut.amount over the inputs whose prevOut.assetType is t
TypeTotal(inputs, t) ==
    IF inputs = <<>> THEN Wide(U64Of(0))
    ELSE LET rest == TypeTotal(Tail(inputs), t)
         IN  IF Head(inputs).prevOut.assetType = t
             THEN WideAdd(Wide(Head(inputs).prevOut.amount), rest)
             ELSE rest
FitsU64(w) == w[1] = 0
LowU64(w) == SubSeq(w, 2, 9)
TypesOf(inputs) == { inputs[k].prevOut.assetType : k \in 1..Len(inputs) }
SumsFit(inputs) == \A t \in TypesOf(inputs) : FitsU64(TypeTotal(inputs, t))
IsU64(u) == Len(u) = 8 /\ \A k \in 1..8 : u[k] \in 0..255

\* the pool has one entry for every asset type of the inputs and no other,
\* and every entry holds the sum of the amounts of its type
PoolOf(pool, inputs) ==
    /\ Len(pool) = Cardinality(TypesOf(inputs))
    /\ \A t \in TypesOf(inputs) : \E i \in 1..Len(pool) : pool[i].assetType = t
    /\ \A i \in 1..Len(pool) :
         Wide(pool[i].amount) = TypeTotal(inputs, pool[i].assetType)

C12_WitnessTwoTypes ==
    /\ Called("getAssetScheme")
    /\ ret.status = "ok"
    /\ Len(Receiver.inputs) = 2
    /\ Len(ret.obj[1].pool) = 2

C13_WitnessReject ==
    /\ Called("getAssetScheme")
    /\ ~Receiver.output.amount.isNull
    /\ ~SumsFit(Receiver.inputs)
    /\ ret.status = "throw"

\* C14: with a null output amount getComposedAsset() and getAssetScheme()
\* each throw ("not implemented") and return nothing; with a non-null amount
\* getComposedAsset() returns the Asset whose assetType is
\* getAssetSchemeAddress(), with the output's lockScriptHash, parameters and
\* amount, transactionHash = hash() and transactionOutputIndex = 0.
C14_ComposedAsset ==
    /\ (Called("getComposedAsset") \/ Called("getAssetScheme"))
         /\ Receiver.output.amount.isNull
       => /\ ret.status = "throw"
          /\ ret.error = [name |-> "Error", message |-> "not implemented"]
          /\ ret.obj = <<>>
    /\ Called("getComposedAsset") /\ ~Receiver.output.amount.isNull
       => /\ ret.status = "ok"
          /\ ret.obj = << [assetType |-> getAssetSchemeAddress(Receiver),
                           lockScriptHash |-> Receiver.output.lockScriptHash,
                           parameters |-> Receiver.output.parameters,
                           amount |-> Receiver.output.amount.v,
                           transactionHash |-> hash(Receiver),
                           transactionOutputIndex |-> 0] >>

C14_Witness ==
    /\ Called("getComposedAsset")
    /\ Receiver.output.amount.isNull
    /\ ret.status = "throw"

C14_WitnessAsset ==
    /\ Called("getComposedAsset")
    /\ ret.status = "ok"
    /\ ret.obj[1].amount = U64Of(100)
    /\ ret.obj[1].parameters = << <<9>> >>

\* equality of nullable and of optional fields: both absent, or both present
\* with the same value
SameNullable(a, b) == a.isNull = b.isNull /\ (~a.isNull => a.v = b.v)
SameOptional(a, b) == a.present = b.present /\ (a.present => a.v = b.v)

SameOutPoint(p, q) ==
    /\ p.transactionHash = q.transactionHash
    /\ p.index = q.index
    /\ p.assetType = q.assetType
    /\ p.amount = q.amount
    /\ SameOptional(p.lockScriptHash, q.lockScriptHash)
    /\ SameOptional(p.parameters, q.parameters)

\* the four fields of an out point that its JSON form and its encoding carry
SameEncodedOutPoint(p, q) ==
    /\ p.transactionHash = q.transactionHash
    /\ p.index = q.index
    /\ p.assetType = q.assetType
    /\ p.amount = q.amount

SameButInputs(t, u) ==
    /\ t.networkId = u.networkId
    /\ t.shardId = u.shardId
    /\ t.metadata = u.metadata
    /\ SameNullable(t.approver, u.approver)
    /\ SameNullable(t.administrator, u.administrator)
    /\ t.output.lockScriptHash = u.output.lockScriptHash
    /\ t.output.parameters = u.output.parameters
    /\ SameNullable(t.output.amount, u.output.amount)
    /\ Len(t.inputs) = Len(u.inputs)
    /\ \A k \in 1..Len(t.inputs) :
         /\ t.inputs[k].lockScript = u.inputs[k].lockScript
         /\ t.inputs[k].unlockScript = u.inputs[k].unlockScript

\* C15: the JSON round trip is exact: fromJSON(x.toJSON()) equals x field
\* for field, and AssetOutPoint.fromJSON(p.toJSON()) equals p in every field,
\* lockScriptHash and parameters included when p carries them.
C15_JSONRoundTrip ==
    Called("fromJSON")
    => /\ ret.status = "ok"
       /\ SameButInputs(ret.obj[1], Receiver)
       /\ \A k \in 1..Len(Receiver.inputs) :
            /\ SameOutPoint(ret.obj[1].inputs[k].prevOut, Receiver.inputs[k].prevOut)
            /\ SameOutPoint(AssetOutPoint_fromJSON(
                               AssetOutPoint_toJSON(Receiver.inputs[k].prevOut)),
                            Receiver.inputs[k].prevOut)

\* the part of the round trip that does hold: every field but an out point's
\* lockScriptHash and parameters comes back as it was
C15_RoundTripOfWrittenFields ==
    Called("fromJSON")
    => /\ ret.status = "ok"
       /\ SameButInputs(ret.obj[1], Receiver)
       /\ \A k \in 1..Len(Receiver.inputs) :
            /\ SameEncodedOutPoint(ret.obj[1].inputs[k].prevOut,
                                   Receiver.inputs[k].prevOut)
            /\ ~ret.obj[1].inputs[k].prevOut.lockScriptHash.present
            /\ ~ret.obj[1].inputs[k].prevOut.parameters.present

\* s is t with elements appended
IsPrefix(t, s) == Len(t) <= Len(s) /\ SubSeq(s, 1, Len(t)) = t

\* the inputs that a list of valid elements stands for
RECURSIVE AsInputs(_)
AsInputs(list) ==
    IF list = <<>> THEN <<>>
    ELSE << IF Head(list).kind = "Asset"
            THEN Asset_createTransferInput(Head(list).asset[1])
            ELSE Head(list).input[1] >> \o AsInputs(Tail(list))
AllValid(list) == \A k \in 1..Len(list) : list[k].kind # "other"

C17_NoSharedState ==
    [][ (call'.op = "addInputs" /\ tx[1].inputs = tx[2].inputs)
        => /\ heap'[tx[1].inputs] = heap[tx[1].inputs]
           /\ \A p \in Objects \ {call'.obj} :
                /\ ThisAfter(p).inputs = This(p).inputs
                /\ hash(ThisAfter(p)) = hash(This(p))
                /\ getAssetSchemeAddress(ThisAfter(p)) = getAssetSchemeAddress(This(p))
                /\ getAssetAddress(ThisAfter(p)) = getAssetAddress(This(p)) ]_vars

\* C18: addInputs is all or nothing: with every element an AssetTransferInput
\* or an Asset the elements are appended in argument order (an Asset as its
\* createTransferInput()) after the inputs already there and the transaction
\* itself is returned; with an element that is neither, the call throws and
\* the inputs are exactly those before the call.
C18_AllOrNothing ==
    [][ call'.op = "addInputs"
        => \A o \in Objects :
             call'.obj = o
             => IF AllValid(ArgList(call'.args))
                THEN /\ ret'.status = "ok"
                     /\ ret'.obj = <<o>>
                     /\ ThisAfter(o).inputs
                          = This(o).inputs \o AsInputs(ArgList(call'.args))
                ELSE /\ ret'.status = "throw"
                     /\ ThisAfter(o).inputs = This(o).inputs ]_vars

\* the bytes a lowercase hex string stands for
RECURSIVE HexBytes(_)
HexBytes(str) ==
    IF Len(str) < 2 THEN <<>>
    ELSE << 16 * (CHOOSE d \in 0..15 : HexChars[d + 1] = str[1])
            + (CHOOSE d \in 0..15 : HexChars[d + 1] = str[2]) >>
         \o HexBytes(SubSeq(str, 3, Len(str)))

\* the requests made to the key store so far, by operation
RequestsOf(op) == { k \in 1..Len(burn.requests) : burn.requests[k].op = op }

\* C19: createUnlockScript requests getPublicKey first and requests sign only
\* after getPublicKey has resolved with a key; with no key the call rejects
\* and sign is never requested; an error of getPublicKey or of sign rejects
\* the call with that error; the call resolves only when both have resolved,
\* and then with the bytes PUSHB, 65, the signature, PUSHB, the length of the
\* encoded tag, the encoded tag, the tag being {input: "all", output: "all"}
\* when none was given.
C19_UnlockScript ==
    /\ burn.pc = "idle" <=> burn.requests = <<>>
    /\ burn.requests # <<>>
       => /\ burn.requests[1]
               = [op |-> "getPublicKey", key |-> burn.publicKeyHash,
                  message |-> NoH256, passphrase |-> burn.passphrase]
          /\ RequestsOf("getPublicKey") = {1}
    /\ RequestsOf("sign") # {}
       => /\ RequestsOf("sign") = {2}
          /\ burn.publicKey.state = "resolved"
          /\ burn.requests[2]
               = [op |-> "sign", key |-> burn.publicKeyHash,
                  message |-> burn.txhash, passphrase |-> burn.passphrase]
    /\ burn.publicKey.state = "null"
       => /\ burn.promise.state = "rejected"
          /\ burn.promise.error = UnableToGetKey
          /\ RequestsOf("sign") = {}
    /\ burn.publicKey.state = "rejected"
       => /\ burn.promise = Rejected(burn.publicKey.error)
          /\ RequestsOf("sign") = {}
    /\ burn.signature.state = "rejected"
       => burn.promise = Rejected(burn.signature.error)
    /\ burn.promise.state = "resolved"
       => /\ burn.publicKey.state = "resolved"
          /\ burn.signature.state = "resolved"
          /\ LET tag == IF burn.signatureTag.present THEN burn.signatureTag.v
                        ELSE Tag("all", OutAll)
                 sig == HexBytes(burn.signature.v)
                 enc == encodeSignatureTag(tag)
             IN  /\ Len(sig) = 65
                 /\ burn.promise.v
                      = <<PUSHB, 65>> \o sig \o <<PUSHB, Len(enc)>> \o enc
                 /\ ~burn.signatureTag.present
                      => SubSeq(burn.promise.v, 68, 70) = <<PUSHB, 1, 3>>

C19_Witness ==
    /\ burn.promise.state = "resolved"
    /\ ~burn.signatureTag.present
    /\ Len(burn.promise.v) = 70
    /\ burn.promise.v[3] = 171
    /\ Len(burn.requests) = 2

C19_WitnessNoKey ==
    /\ burn.publicKey.state = "null"
    /\ burn.promise.state = "rejected"
    /\ Len(burn.requests) = 1

====
